---- MODULE Spec2Model ----
(***************************************************************************)
(* Model of the aircraft ingestion pipeline of bdi_api: the s1 endpoints   *)
(* (download to local disk, prepare into SQLite, list, positions) and the  *)
(* s4 endpoints (download to the object store, stage and prepare).         *)
(*                                                                         *)
(* Values.  A value a JSON object may lack (dict.get -> None) is modelled  *)
(* as a sequence of length 0 (Null) or 1 (Some(v)).  The hex code of an    *)
(* aircraft is a sequence of character codes so that SQLite's ORDER BY     *)
(* icao (bytewise) can be computed.  Timestamps are whole seconds and      *)
(* coordinates are micro-degrees.  A file name HHMMSSZ.json.gz is the      *)
(* record of its six digits and its suffix.                                *)
(***************************************************************************)
EXTENDS Integers, Sequences, FiniteSets, TLC

\* Largest file_limit a request carries, and number of files on the feed.
MaxCount == 2

Null == << >>
Some(v) == << v >>
Get(o) == o[1]

\* ---------------------------------------------------------------- helpers

\* Lexicographic order on sequences of integers (str.__lt__ on equal-alphabet
\* strings, and SQLite's BINARY collation).
RECURSIVE LexLess(_, _)
LexLess(a, b) ==
  IF b = << >> THEN FALSE
  ELSE IF a = << >> THEN TRUE
  ELSE IF Head(a) < Head(b) THEN TRUE
  ELSE IF Head(a) > Head(b) THEN FALSE
  ELSE LexLess(Tail(a), Tail(b))

\* f"{x:02d}" for 0 <= x < 100
Pad2(x) == << x \div 10, x % 10 >>

JsonGz == "Z.json.gz"

\* one element of _first_n_filenames: the name of file number i
FileName(i) ==
  LET total_seconds == i * 5
      hh == total_seconds \div 3600
      mm == (total_seconds % 3600) \div 60
      ss == total_seconds % 60
  IN [digits |-> Pad2(hh) \o Pad2(mm) \o Pad2(ss), suffix |-> JsonGz]

_first_n_filenames(file_limit) == [i \in 1..file_limit |-> FileName(i - 1)]

\* glob("*.json.gz") and key.endswith(".json.gz")
EndsWithJsonGz(name) == name.suffix = JsonGz

NameLess(a, b) == LexLess(a.digits, b.digits)

\* sorted(...) of a set of names
RECURSIVE SortedNames(_)
SortedNames(S) ==
  IF S = {} THEN << >>
  ELSE LET m == CHOOSE x \in S : \A y \in S \ {x} : NameLess(x, y)
       IN << m >> \o SortedNames(S \ {m})

Min(a, b) == IF a < b THEN a ELSE b

\* ------------------------------------------------------------ the feed

HexA == << 10, 1 >>       \* "a1"
HexB == << 11, 2 >>       \* "b2"

Observation(hex, r, t, lat, lon, alt_baro, gs, emergency) ==
  [hex |-> hex, r |-> r, t |-> t, lat |-> lat, lon |-> lon,
   alt_baro |-> alt_baro, gs |-> gs, emergency |-> emergency]

ObsAFull  == Observation(Some(HexA), Some("EC-AAA"), Some("A320"),
                         Some(1), Some(2), Some(100), Some(50), Null)
ObsABare  == Observation(Some(HexA), Null, Null,
                         Null, Some(2), Some(300), Null, Some("general"))
ObsANoLon == Observation(Some(HexA), Some("EC-AAB"), Null,
                         Some(3), Null, Null, Some(20), Null)
ObsBFull  == Observation(Some(HexB), Some("EC-BBB"), Some("B738"),
                         Some(0), Some(0), Null, Null, Some("none"))
ObsNoHex  == Observation(Null, Some("EC-XXX"), Some("C172"),
                         Some(5), Some(6), Some(200), Some(10), Null)
ObsEmptyHex == Observation(Some(<< >>), Some("EC-YYY"), Null,
                         Some(7), Some(8), Null, Null, Null)

\* The content of a raw file: text that json.load accepts (valid) with its
\* optional "now" and "aircraft" members, or text it rejects.
Snapshot(now, aircraft) == [valid |-> TRUE, now |-> now, aircraft |-> aircraft]
Malformed == [valid |-> FALSE, now |-> Null, aircraft |-> Null]

SnapA == Snapshot(Some(10),
                  Some(<< ObsBFull, ObsAFull, ObsNoHex, ObsANoLon >>))
SnapB == Snapshot(Null, Some(<< ObsAFull, ObsEmptyHex, ObsABare >>))
Snapshots == {Malformed, SnapA, SnapB}

\* --------------------------------------------------------- directories

\* A directory (and the bucket) is a function from the names in it to their
\* contents.
EmptyDir == [x \in {} |-> Null]

\* A clean-up that leaves the directory as it is.
KeepDir(path) == path

\* shutil.rmtree + mkdir
_ensure_clean_dir(path) == EmptyDir

WriteFile(dir, name, content) ==
  [x \in DOMAIN dir \cup {name} |-> IF x = name THEN content ELSE dir[x]]

RemoveFile(dir, name) == [x \in DOMAIN dir \ {name} |-> dir[x]]

DbFile == "aircraft.sqlite"

\* The object named by the prefix itself ("raw/day=20231101/"), as a console
\* leaves it when the folder is created by hand.
FolderMarker == [digits |-> << >>, suffix |-> "/"]

\* ------------------------------------------------------------ the store

EmptyTables == [aircraft |-> << >>, positions |-> << >>]

\* unlink the file if it is there, create the two empty tables, commit
_init_db(prepared) == WriteFile(RemoveFile(prepared, DbFile), DbFile, EmptyTables)

\* Python truthiness of a.get("hex"): None and "" are false
FalsyHex(v) == v = Null \/ Get(v) = << >>

\* Python truthiness of a.get("emergency"): None and "" are false, every
\* other string (also "none") is true
FalsyStr(v) == v = Null \/ Get(v) = ""

\* A plain INSERT without the ON CONFLICT clause, on a table without the
\* primary key.
upsertAircraftInsertOnly(tbl, icao, registration, ac_type) ==
  Append(tbl, [icao |-> icao, registration |-> registration, type |-> ac_type])

\* An upsert that keeps a known value when the new one is null
\* (COALESCE(excluded.registration, registration)).
upsertAircraftKeepKnown(tbl, icao, registration, ac_type) ==
  IF icao # Null /\ \E k \in DOMAIN tbl : tbl[k].icao = icao
  THEN [k \in DOMAIN tbl |->
          IF tbl[k].icao = icao
          THEN [tbl[k] EXCEPT
                  !.registration = IF registration = Null THEN @ ELSE registration,
                  !.type = IF ac_type = Null THEN @ ELSE ac_type]
          ELSE tbl[k]]
  ELSE Append(tbl, [icao |-> icao, registration |-> registration,
                    type |-> ac_type])

\* INSERT INTO aircraft ... ON CONFLICT(icao) DO UPDATE SET registration,
\* type
upsertAircraft(tbl, icao, registration, ac_type) ==
  IF icao # Null /\ \E k \in DOMAIN tbl : tbl[k].icao = icao
  THEN [k \in DOMAIN tbl |->
          IF tbl[k].icao = icao
          THEN [tbl[k] EXCEPT !.registration = registration, !.type = ac_type]
          ELSE tbl[k]]
  ELSE Append(tbl, [icao |-> icao, registration |-> registration,
                    type |-> ac_type])

\* INSERT INTO positions; id is AUTOINCREMENT in a table that never deletes
appendPosition(tbl, icao, timestamp, lat, lon, alt, gs, emergency) ==
  Append(tbl, [id |-> Len(tbl) + 1, icao |-> icao, timestamp |-> timestamp,
               lat |-> lat, lon |-> lon, altitude_baro |-> alt,
               ground_speed |-> gs, had_emergency |-> emergency])

\* "if lat is not None and lon is not None" weakened to "or".
HasCoordinatesEither(lat, lon) == lat # Null \/ lon # Null

\* "if lat is not None and lon is not None"
HasCoordinates(lat, lon) == lat # Null /\ lon # Null

\* The body of "for a in payload.get('aircraft', [])" for one observation
ProcessObservation(t, a, timestamp) ==
  LET icao == a.hex
      emergency == IF FalsyStr(a.emergency) THEN 0 ELSE 1
  IN IF FalsyHex(icao) THEN t
     ELSE LET t1 == [t EXCEPT !.aircraft = upsertAircraft(@, icao, a.r, a.t)]
          IN IF HasCoordinates(a.lat, a.lon)
             THEN [t1 EXCEPT !.positions =
                     appendPosition(@, icao, timestamp, a.lat, a.lon,
                                    a.alt_baro, a.gs, emergency)]
             ELSE t1

RECURSIVE ProcessAircraft(_, _, _)
ProcessAircraft(t, list, timestamp) ==
  IF list = << >> THEN t
  ELSE ProcessAircraft(ProcessObservation(t, Head(list), timestamp),
                       Tail(list), timestamp)

\* One iteration of "for fp in raw_files" on a file json.load accepts
ProcessFile(t, payload) ==
  LET timestamp == IF payload.now = Null THEN 0 ELSE Get(payload.now)
      list == IF payload.aircraft = Null THEN << >> ELSE Get(payload.aircraft)
  IN ProcessAircraft(t, list, timestamp)

\* ---------------------------------------------------------- the queries

IcaoLess(a, b) ==
  IF b.icao = Null THEN FALSE
  ELSE IF a.icao = Null THEN TRUE
  ELSE LexLess(Get(a.icao), Get(b.icao))

\* ORDER BY icao ASC: a stable sort, rows with equal keys stay in rowid order
SortByIcao(rows) ==
  LET pos(k) == 1 + Cardinality({j \in DOMAIN rows :
                       \/ IcaoLess(rows[j], rows[k])
                       \/ (~IcaoLess(rows[k], rows[j]) /\ j < k)})
  IN [p \in DOMAIN rows |-> rows[CHOOSE k \in DOMAIN rows : pos(k) = p]]

\* A response: the endpoint, the HTTP status, the JSON string or the JSON
\* list of the body, the exception behind a failure, and (positions only)
\* the icao of the request path.
Response(op, status, text, rows, error) ==
  [op |-> op, status |-> status, text |-> text, rows |-> rows, error |-> error,
   icao |-> Null]

\* GET /api/s1/aircraft/
list_aircraft(prepared, num_results, page) ==
  IF DbFile \notin DOMAIN prepared
  THEN Response("list", 400, "", << >>, "HTTPException")
  ELSE LET offset == page * num_results
           ordered == SortByIcao(prepared[DbFile].aircraft)
       IN Response("list", 200, "",
                   SubSeq(ordered, offset + 1,
                          Min(offset + num_results, Len(ordered))), "")

\* GET /api/s1/aircraft/{icao}/positions: the body is the constant list
\* [{"timestamp": 1609275898.6, "lat": 30.404617, "lon": -86.476566}]
\* (the fraction of the timestamp is dropped here).
get_aircraft_position(icao, num_results, page) ==
  Response("positions", 200, "",
           << [timestamp |-> 1609275898, lat |-> 30404617, lon |-> -86476566] >>,
           "")

\* ------------------------------------------------------------- the state

VARIABLES
  feed,         \* the remote day directory: file number -> content
  rawDir,       \* <raw_dir>/day=20231101
  bucket,       \* the objects of the bucket under raw/day=20231101/
  preparedDir,  \* <prepared_dir>/day=20231101 (the committed database file)
  txn,          \* what the open connection of prepare_data has written
  pc,           \* the handler the server is in
  dl,           \* download_data: variant, file_limit, number of files done
  prep,         \* prepare_data: variant, raw_files, number of files done
  resp,         \* the last response sent to the caller
  rawFrom,      \* which handler last rebuilt rawDir
  chain,        \* download -> prepare -> list bookkeeping
  run1,         \* the last successful prepare: its raw set and its store
  twice,        \* the store is the result of a repeated prepare
  dbBefore      \* preparedDir when the running / last prepare began

vars == << feed, rawDir, bucket, preparedDir, txn, pc, dl, prep, resp,
           rawFrom, chain, run1, twice, dbBefore >>

Counts == 0..MaxCount
NumResults == {1, 1000}
Pages == {0, 1}
Icaos == {Some(HexA), Some(<< 12 >>)}

NoChain == [variant |-> "none", stage |-> 0, file_limit |-> 0]
NoDownload == [variant |-> "s1", file_limit |-> 0, i |-> 0]
NoRun == [valid |-> FALSE, raw |-> EmptyDir, tables |-> EmptyTables]
NoResponse == Response("none", 0, "", << >>, "")
NoPrepare == [variant |-> "s1", raw_files |-> << >>, i |-> 0]
Ok(op) == Response(op, 200, "OK", << >>, "")
Failure(op, error) == Response(op, 500, "", << >>, error)

Init ==
  /\ feed \in [0..(MaxCount - 1) -> Snapshots]
  /\ rawDir = EmptyDir
  /\ bucket = WriteFile(EmptyDir, FolderMarker, Null)
  /\ preparedDir = EmptyDir
  /\ txn = EmptyTables
  /\ pc = "idle"
  /\ dl = NoDownload
  /\ prep = NoPrepare
  /\ resp = NoResponse
  /\ rawFrom = "none"
  /\ chain = NoChain
  /\ run1 = NoRun
  /\ twice = FALSE
  /\ dbBefore = EmptyDir

\* --------------------------------------------------------- s1 download

\* POST /api/s1/aircraft/download: the raw directory is emptied, then the
\* loop over _first_n_filenames(file_limit) starts.
S1DownloadStart ==
  \E file_limit \in Counts :
    /\ pc = "idle"
    /\ rawDir' = _ensure_clean_dir(rawDir)
    /\ dl' = [variant |-> "s1", file_limit |-> file_limit, i |-> 0]
    /\ pc' = "s1_download"
    /\ rawFrom' = "s1_download"
    /\ chain' = NoChain
    /\ run1' = NoRun
    /\ twice' = FALSE
    /\ resp' = NoResponse
    /\ prep' = NoPrepare
    /\ dbBefore' = EmptyDir
    /\ UNCHANGED << feed, bucket, preparedDir, txn >>

\* One iteration: requests.get succeeds and the bytes are written.
S1DownloadFetch ==
  /\ pc = "s1_download"
  /\ dl.i < dl.file_limit
  /\ rawDir' = WriteFile(rawDir, _first_n_filenames(dl.file_limit)[dl.i + 1],
                         feed[dl.i])
  /\ dl' = [dl EXCEPT !.i = @ + 1]
  /\ UNCHANGED << feed, bucket, preparedDir, txn, pc, prep, resp, rawFrom,
                  chain, run1, twice, dbBefore >>

\* One iteration: requests.get or raise_for_status raises; the handler ends.
S1DownloadFail ==
  /\ pc = "s1_download"
  /\ dl.i < dl.file_limit
  /\ pc' = "idle"
  /\ resp' = Failure("s1_download", "HTTPError")
  /\ UNCHANGED << feed, rawDir, bucket, preparedDir, txn, dl, prep, rawFrom,
                  chain, run1, twice, dbBefore >>

\* The loop is over: return "OK".
S1DownloadReturn ==
  /\ pc = "s1_download"
  /\ dl.i = dl.file_limit
  /\ pc' = "idle"
  /\ resp' = Ok("s1_download")
  /\ chain' = [variant |-> "s1", stage |-> 1, file_limit |-> dl.file_limit]
  /\ UNCHANGED << feed, rawDir, bucket, preparedDir, txn, dl, prep, rawFrom,
                  run1, twice, dbBefore >>

\* --------------------------------------------------------- s4 download

\* POST /api/s4/aircraft/download: the loop starts; nothing is removed from
\* the bucket.
S4DownloadStart ==
  \E file_limit \in Counts :
    /\ pc = "idle"
    /\ dl' = [variant |-> "s4", file_limit |-> file_limit, i |-> 0]
    /\ pc' = "s4_download"
    /\ chain' = NoChain
    /\ run1' = NoRun
    /\ twice' = FALSE
    /\ resp' = NoResponse
    /\ prep' = NoPrepare
    /\ dbBefore' = EmptyDir
    /\ UNCHANGED << feed, rawDir, bucket, preparedDir, txn, rawFrom >>

\* One iteration: the file is fetched and put under S3_PREFIX + fname.
S4DownloadFetch ==
  /\ pc = "s4_download"
  /\ dl.i < dl.file_limit
  /\ bucket' = WriteFile(bucket, _first_n_filenames(dl.file_limit)[dl.i + 1],
                         feed[dl.i])
  /\ dl' = [dl EXCEPT !.i = @ + 1]
  /\ UNCHANGED << feed, rawDir, preparedDir, txn, pc, prep, resp, rawFrom,
                  chain, run1, twice, dbBefore >>

\* One iteration: the fetch or put_object raises; the handler ends.
S4DownloadFail ==
  /\ pc = "s4_download"
  /\ dl.i < dl.file_limit
  /\ pc' = "idle"
  /\ \E error \in {"HTTPError", "ClientError"} :
       resp' = Failure("s4_download", error)
  /\ UNCHANGED << feed, rawDir, bucket, preparedDir, txn, dl, prep, rawFrom,
                  chain, run1, twice, dbBefore >>

S4DownloadReturn ==
  /\ pc = "s4_download"
  /\ dl.i = dl.file_limit
  /\ pc' = "idle"
  /\ resp' = Ok("s4_download")
  /\ chain' = [variant |-> "s4", stage |-> 1, file_limit |-> dl.file_limit]
  /\ UNCHANGED << feed, rawDir, bucket, preparedDir, txn, dl, prep, rawFrom,
                  run1, twice, dbBefore >>

\* ------------------------------------------------------------- prepare

PrepareOp(variant) == IF variant = "s1" THEN "s1_prepare" ELSE "s4_prepare"

\* A prepare that opens the database it finds, CREATE TABLE IF NOT EXISTS
\* style, instead of emptying the prepared directory and the file.
PrepareBeginKeepStore(raw, variant) ==
  LET raw_files == SortedNames({n \in DOMAIN raw : EndsWithJsonGz(n)})
      kept == IF DbFile \in DOMAIN preparedDir THEN preparedDir
              ELSE _init_db(preparedDir)
  IN /\ dbBefore' = preparedDir
     /\ dl' = NoDownload
     /\ prep' = [variant |-> variant, raw_files |-> raw_files, i |-> 0]
     /\ twice' = FALSE
     /\ chain' = IF chain.stage = 1 /\ chain.variant = variant
                THEN [chain EXCEPT !.stage = 2] ELSE NoChain
     /\ IF raw_files = << >>
        THEN /\ preparedDir' = preparedDir
             /\ txn' = EmptyTables
             /\ pc' = "idle"
             /\ resp' = Failure(PrepareOp(variant), "RuntimeError")
             /\ run1' = NoRun
        ELSE /\ preparedDir' = kept
             /\ txn' = kept[DbFile]
             /\ pc' = "prepare"
             /\ resp' = NoResponse
             /\ UNCHANGED run1

\* s1 prepare_data up to the loop over raw_files: empty the prepared
\* directory, list and sort the raw files, raise when there is none, create
\* the database and open the connection.
PrepareBegin(raw, variant) ==
  LET prepared1 == _ensure_clean_dir(preparedDir)
      raw_files == SortedNames({n \in DOMAIN raw : EndsWithJsonGz(n)})
  IN /\ dbBefore' = preparedDir
     /\ dl' = NoDownload
     /\ prep' = [variant |-> variant, raw_files |-> raw_files, i |-> 0]
     /\ twice' = FALSE
     /\ chain' = IF chain.stage = 1 /\ chain.variant = variant
                THEN [chain EXCEPT !.stage = 2] ELSE NoChain
     /\ IF raw_files = << >>
        THEN /\ preparedDir' = prepared1
             /\ txn' = EmptyTables
             /\ pc' = "idle"
             /\ resp' = Failure(PrepareOp(variant), "RuntimeError")
             /\ run1' = NoRun
        ELSE /\ preparedDir' = _init_db(prepared1)
             /\ txn' = _init_db(prepared1)[DbFile]
             /\ pc' = "prepare"
             /\ resp' = NoResponse
             /\ UNCHANGED run1

\* POST /api/s1/aircraft/prepare
S1Prepare ==
  /\ pc = "idle"
  /\ PrepareBegin(rawDir, "s1")
  /\ UNCHANGED << feed, rawDir, bucket, rawFrom >>

\* A listing filter that looks for ".json" at the end of the key.
StageKeysWrongSuffix(objects) ==
  SortedNames({key \in DOMAIN objects :
                 ~(key.suffix = "/" \/ key.suffix # "Z.json")})

\* The keys the paginated listing collects, sorted: every key under the
\* prefix that does not end in "/" and ends in ".json.gz".
StageKeys(objects) ==
  SortedNames({key \in DOMAIN objects :
                 ~(key.suffix = "/" \/ ~EndsWithJsonGz(key))})

\* download_file of the first j keys into the emptied local raw directory,
\* each under its basename.
Stage(objects, j) ==
  LET keys == StageKeys(objects)
  IN [fname \in {keys[k] : k \in 1..j} |-> objects[fname]]

\* POST /api/s4/aircraft/prepare: stage the bucket, then call s1 prepare.
S4Prepare ==
  /\ pc = "idle"
  /\ rawDir' = Stage(bucket, Len(StageKeys(bucket)))
  /\ rawFrom' = "s4_prepare"
  /\ PrepareBegin(rawDir', "s4")
  /\ UNCHANGED << feed, bucket >>

\* POST /api/s4/aircraft/prepare when list_objects_v2 (j = 0) or the
\* download_file of key j + 1 raises: s1 prepare is not called.
S4PrepareStageFail ==
  \E j \in 0..MaxCount :
    /\ pc = "idle"
    /\ j = 0 \/ j < Len(StageKeys(bucket))
    /\ rawDir' = Stage(bucket, j)
    /\ rawFrom' = "s4_prepare"
    /\ resp' = Failure("s4_prepare", "ClientError")
    /\ chain' = NoChain
    /\ run1' = NoRun
    /\ twice' = FALSE
    /\ dl' = NoDownload
    /\ prep' = NoPrepare
    /\ dbBefore' = EmptyDir
    /\ UNCHANGED << feed, bucket, preparedDir, txn, pc >>

\* An iteration that commits after every file.
PrepareFileCommitEach ==
  /\ pc = "prepare"
  /\ prep.i < Len(prep.raw_files)
  /\ rawDir[prep.raw_files[prep.i + 1]].valid
  /\ txn' = ProcessFile(txn, rawDir[prep.raw_files[prep.i + 1]])
  /\ preparedDir' = WriteFile(preparedDir, DbFile, txn')
  /\ prep' = [prep EXCEPT !.i = @ + 1]
  /\ UNCHANGED << feed, rawDir, bucket, pc, dl, resp, rawFrom, chain, run1,
                  twice, dbBefore >>

\* One iteration of the loop: json.load accepts the file, its observations
\* are written through the open connection (not committed).
PrepareFile ==
  /\ pc = "prepare"
  /\ prep.i < Len(prep.raw_files)
  /\ rawDir[prep.raw_files[prep.i + 1]].valid
  /\ txn' = ProcessFile(txn, rawDir[prep.raw_files[prep.i + 1]])
  /\ prep' = [prep EXCEPT !.i = @ + 1]
  /\ UNCHANGED << feed, rawDir, bucket, preparedDir, pc, dl, resp, rawFrom,
                  chain, run1, twice, dbBefore >>

\* One iteration of the loop: json.load raises.  The handler ends without
\* commit; what the connection wrote is rolled back when it is dropped.
PrepareFileFail ==
  /\ pc = "prepare"
  /\ prep.i < Len(prep.raw_files)
  /\ ~rawDir[prep.raw_files[prep.i + 1]].valid
  /\ txn' = EmptyTables
  /\ pc' = "idle"
  /\ resp' = Failure(PrepareOp(prep.variant), "JSONDecodeError")
  /\ chain' = NoChain
  /\ run1' = NoRun
  /\ UNCHANGED << feed, rawDir, bucket, preparedDir, dl, prep, rawFrom, twice,
                  dbBefore >>

\* The loop is over: con.commit(), con.close(), return "OK".
PrepareCommit ==
  /\ pc = "prepare"
  /\ prep.i = Len(prep.raw_files)
  /\ preparedDir' = WriteFile(preparedDir, DbFile, txn)
  /\ txn' = EmptyTables
  /\ pc' = "idle"
  /\ resp' = Ok(PrepareOp(prep.variant))
  /\ twice' = (run1.valid /\ run1.raw = rawDir)
  /\ run1' = IF twice' THEN run1
             ELSE [valid |-> TRUE, raw |-> rawDir, tables |-> txn]
  /\ UNCHANGED << feed, rawDir, bucket, dl, prep, rawFrom, chain, dbBefore >>

\* ------------------------------------------------------------- queries

\* GET /api/s1/aircraft/
ListAircraft ==
  \E num_results \in NumResults, page \in Pages :
    /\ pc = "idle"
    /\ resp' = list_aircraft(preparedDir, num_results, page)
    /\ chain' = IF chain.stage = 2 THEN [chain EXCEPT !.stage = 3] ELSE chain
    /\ dl' = NoDownload
    /\ prep' = NoPrepare
    /\ dbBefore' = EmptyDir
    /\ UNCHANGED << feed, rawDir, bucket, preparedDir, txn, pc, rawFrom,
                    run1, twice >>

\* GET /api/s1/aircraft/{icao}/positions (num_results and page left at
\* their defaults)
AircraftPositions ==
  \E icao \in Icaos :
    /\ pc = "idle"
    /\ resp' = [get_aircraft_position(icao, 1000, 0) EXCEPT !.icao = icao]
    /\ dl' = NoDownload
    /\ prep' = NoPrepare
    /\ dbBefore' = EmptyDir
    /\ UNCHANGED << feed, rawDir, bucket, preparedDir, txn, pc, rawFrom,
                    chain, run1, twice >>

Next ==
  \/ S1DownloadStart
  \/ S1DownloadFetch
  \/ S1DownloadFail
  \/ S1DownloadReturn
  \/ S4DownloadStart
  \/ S4DownloadFetch
  \/ S4DownloadFail
  \/ S4DownloadReturn
  \/ S1Prepare
  \/ S4Prepare
  \/ S4PrepareStageFail
  \/ PrepareFile
  \/ PrepareFileFail
  \/ PrepareCommit
  \/ ListAircraft
  \/ AircraftPositions

Spec == Init /\ [][Next]_vars

\* ------------------------------------------------------------ the claims

PrepareOps == {"s1_prepare", "s4_prepare"}

\* The first k names of the sequence for file_limit
Prefix(file_limit, k) == {_first_n_filenames(file_limit)[j] : j \in 1..k}

\* The prepare that ran last has returned "OK" and nothing was requested since
PrepareSucceeded == pc = "idle" /\ resp.op \in PrepareOps /\ resp.status = 200

\* The prepare that ran last has failed and nothing was requested since
PrepareFailed(error) ==
  pc = "idle" /\ resp.op \in PrepareOps /\ resp.error = error

Store == preparedDir[DbFile]

\* The tables the first k of the listed files produce
RECURSIVE TablesOfFirst(_)
TablesOfFirst(k) ==
  IF k = 0 THEN EmptyTables
  ELSE ProcessFile(TablesOfFirst(k - 1), rawDir[prep.raw_files[k]])

\* The observations of the first k listed files in processing order, each with
\* the capture timestamp of its snapshot
RECURSIVE ObservationsOfFirst(_)
ObservationsOfFirst(k) ==
  IF k = 0 THEN << >>
  ELSE LET payload == rawDir[prep.raw_files[k]]
           now == IF payload.now = Null THEN 0 ELSE Get(payload.now)
           list == IF payload.aircraft = Null THEN << >>
                   ELSE Get(payload.aircraft)
       IN ObservationsOfFirst(k - 1)
            \o [j \in DOMAIN list |-> [a |-> list[j], now |-> now]]

Observed == ObservationsOfFirst(Len(prep.raw_files))

HasHex(o) == o.a.hex # Null /\ o.a.hex # Some(<< >>)

HasHexLatLon(o) == HasHex(o) /\ o.a.lat # Null /\ o.a.lon # Null

\* C1: when prepare has run twice in succession on the same raw file set, the
\* Aircraft table equals the table after the first run and holds at most one
\* row per icao.
C1_RepeatKeepsAircraft ==
  twice =>
    /\ DbFile \in DOMAIN preparedDir
    /\ Store.aircraft = run1.tables.aircraft
    /\ \A j, k \in DOMAIN Store.aircraft :
         Store.aircraft[j].icao = Store.aircraft[k].icao => j = k

C1_Witness ==
  /\ twice
  /\ Len(Store.aircraft) = 2
  /\ Len(prep.raw_files) = 2

\* C2 as stated: after prepare has run twice in succession on the same raw
\* file set, the number of PositionEvent rows is twice the number after the
\* first run.
C2_PositionsDouble ==
  twice => Len(Store.positions) = 2 * Len(run1.tables.positions)

\* C2 amended: after prepare has run twice in succession on the same raw file
\* set, the PositionEvent rows are those of the first run, as many and the
\* same.
C2_PositionsSame ==
  twice =>
    /\ Len(Store.positions) = Len(run1.tables.positions)
    /\ Store.positions = run1.tables.positions

C2_Witness ==
  /\ twice
  /\ Len(Store.positions) >= 2

\* C3: in both variants the prepare that follows a successful download with
\* count n lists exactly f(0), ..., f(n-1) as its raw files.
C3_NoStaleFiles ==
  (/\ chain.stage = 2
   /\ chain.variant = prep.variant
   /\ pc = "prepare" \/ resp.op \in PrepareOps)
  => prep.raw_files = _first_n_filenames(chain.file_limit)

\* C4: during an s1 download with count n and after it, the raw directory
\* holds exactly the first k names, k the number of files fetched so far and
\* k <= n; "OK" is returned only with k = n, and a failed fetch ends the
\* download with an error, k < n and the k files left in place.
C4_RawIsPrefix ==
  /\ (pc = "s1_download" \/ resp.op = "s1_download") =>
       /\ dl.i <= dl.file_limit
       /\ DOMAIN rawDir = Prefix(dl.file_limit, dl.i)
       /\ \A name \in DOMAIN rawDir : EndsWithJsonGz(name)
       /\ resp.op = "s1_download" =>
            /\ pc = "idle"
            /\ resp.text = "OK" <=> dl.i = dl.file_limit
            /\ resp.text # "OK" => resp.status = 500 /\ resp.error = "HTTPError"
  /\ rawFrom = "s1_download" =>
       \E k \in 0..MaxCount : DOMAIN rawDir = Prefix(MaxCount, k)

C4_Witness ==
  /\ resp.op = "s1_download"
  /\ resp.status = 500
  /\ dl.file_limit = 2
  /\ DOMAIN rawDir = {FileName(0)}

\* C5 as stated: after a prepare that failed on its k-th raw file the store
\* holds the Aircraft and PositionEvent rows of files 1..k-1.
C5_EarlierFilesCommitted ==
  PrepareFailed("JSONDecodeError") =>
    /\ DbFile \in DOMAIN preparedDir
    /\ Store = TablesOfFirst(prep.i)

\* C5 amended: after a prepare that failed on its k-th raw file the remaining
\* files are not processed and nothing of that run is committed: the store
\* exists with both tables empty, and a listing returns the empty list.
C5_FailedRunCommitsNothing ==
  PrepareFailed("JSONDecodeError") =>
    /\ prep.i < Len(prep.raw_files)
    /\ ~rawDir[prep.raw_files[prep.i + 1]].valid
    /\ DbFile \in DOMAIN preparedDir
    /\ Store = EmptyTables
    /\ txn = EmptyTables
    /\ list_aircraft(preparedDir, 1000, 0).status = 200
    /\ list_aircraft(preparedDir, 1000, 0).rows = << >>

C5_Witness ==
  /\ PrepareFailed("JSONDecodeError")
  /\ prep.i = 1
  /\ Len(TablesOfFirst(1).aircraft) = 2
  /\ Len(TablesOfFirst(1).positions) >= 2

\* C6 as stated: after a prepare that failed with NoInputError or ParseError,
\* begun with aircraft in the store, a listing returns what it returned before
\* that prepare.
C6_FailedRunKeepsDataset ==
  (/\ PrepareFailed("RuntimeError") \/ PrepareFailed("JSONDecodeError")
   /\ DbFile \in DOMAIN dbBefore
   /\ dbBefore[DbFile].aircraft # << >>)
  => list_aircraft(preparedDir, 1000, 0) = list_aircraft(dbBefore, 1000, 0)

\* C6 amended: a prepare that fails does not keep the earlier dataset.  After
\* NoInputError the store is gone and a listing returns the 400 error; after
\* ParseError the store is there with empty tables and a listing returns the
\* empty list.
C6_FailedRunDropsDataset ==
  /\ PrepareFailed("RuntimeError") =>
       /\ preparedDir = EmptyDir
       /\ list_aircraft(preparedDir, 1000, 0).status = 400
  /\ PrepareFailed("JSONDecodeError") =>
       /\ DOMAIN preparedDir = {DbFile}
       /\ list_aircraft(preparedDir, 1000, 0).status = 200
       /\ list_aircraft(preparedDir, 1000, 0).rows = << >>

C6_Witness ==
  /\ PrepareFailed("RuntimeError")
  /\ list_aircraft(dbBefore, 1000, 0).status = 200
  /\ Len(list_aircraft(dbBefore, 1000, 0).rows) = 2

\* C7 as stated: the s4 prepare that follows an s4 download that returned
\* "OK" returns "OK" unless a fetch, object-store or parse failure occurs, and
\* a listing after it returns status 200.
C7_PrepareAfterDownload ==
  /\ (chain.variant = "s4" /\ chain.stage = 2 /\ pc = "idle"
        /\ resp.op = "s4_prepare")
       => resp = Ok("s4_prepare")
  /\ (chain.variant = "s4" /\ chain.stage = 3 /\ resp.op = "list")
       => resp.status = 200

\* C7 amended: the s4 prepare that follows an s4 download with count n >= 1
\* that returned "OK" returns "OK" unless a fetch, object-store or parse
\* failure occurs, and a listing after it returns status 200 with a list.
C7_PrepareAfterNonEmptyDownload ==
  /\ (chain.variant = "s4" /\ chain.stage = 2 /\ pc = "idle"
        /\ resp.op = "s4_prepare" /\ chain.file_limit >= 1)
       => /\ resp = Ok("s4_prepare")
          /\ DbFile \in DOMAIN preparedDir
  /\ (chain.variant = "s4" /\ chain.stage = 3 /\ resp.op = "list"
        /\ chain.file_limit >= 1)
       => /\ resp.status = 200
          /\ resp.error = ""

C7_Witness ==
  /\ chain.variant = "s4"
  /\ chain.stage = 3
  /\ chain.file_limit = 2
  /\ resp.op = "list"
  /\ resp.status = 200
  /\ Len(resp.rows) = 2

\* The PositionEvents stored for icao in ascending timestamp order, as the
\* {timestamp, lat, lon} objects of the response; none when there is no store.
StoredPositions(icao) ==
  IF DbFile \notin DOMAIN preparedDir THEN << >>
  ELSE LET IsFor(p) == p.icao = icao
           rows == SelectSeq(Store.positions, IsFor)
           pos(k) == 1 + Cardinality({j \in DOMAIN rows :
                       \/ rows[j].timestamp < rows[k].timestamp
                       \/ (rows[j].timestamp = rows[k].timestamp /\ j < k)})
           mine == [p \in DOMAIN rows |->
                      rows[CHOOSE k \in DOMAIN rows : pos(k) = p]]
       IN [k \in DOMAIN mine |->
             [timestamp |-> mine[k].timestamp, lat |-> Get(mine[k].lat),
              lon |-> Get(mine[k].lon)]]

\* C8: the positions query returns exactly the PositionEvents stored for the
\* icao in ascending timestamp order, the empty list when there is none.
C8_PositionsOfIcao ==
  resp.op = "positions" =>
    /\ resp.status = 200
    /\ resp.rows = StoredPositions(resp.icao)

\* C9: after a successful prepare the Aircraft table has exactly one row per
\* non-empty hex observed, and the row carries the registration and type of
\* the last observation of that hex in processing order, null included.
C9_LastObservationWins ==
  PrepareSucceeded =>
    LET tbl == Store.aircraft
        seen == {k \in DOMAIN Observed : HasHex(Observed[k])}
    IN /\ \A k \in seen :
            Cardinality({j \in DOMAIN tbl : tbl[j].icao = Observed[k].a.hex}) = 1
       /\ \A j \in DOMAIN tbl :
            /\ \E k \in seen : Observed[k].a.hex = tbl[j].icao
            /\ \A k \in seen :
                 (/\ Observed[k].a.hex = tbl[j].icao
                  /\ \A m \in seen : Observed[m].a.hex = tbl[j].icao => m <= k)
                 => /\ tbl[j].registration = Observed[k].a.r
                    /\ tbl[j].type = Observed[k].a.t

C9_Witness ==
  /\ PrepareSucceeded
  /\ Len(prep.raw_files) = 2
  /\ \E j \in DOMAIN Store.aircraft :
       /\ Store.aircraft[j].registration = Null
       /\ \E k \in DOMAIN Observed :
            /\ Observed[k].a.hex = Store.aircraft[j].icao
            /\ Observed[k].a.r # Null

\* C10: every PositionEvent, committed or written through the open
\* connection, has lat, lon and a non-empty icao; after a successful prepare
\* the PositionEvents are, in order, one per observation that has hex, lat and
\* lon, with the capture timestamp of its snapshot, and every observation with
\* a hex has its Aircraft row.
C10_PositionsNeedCoordinates ==
  /\ \A tables \in {txn} \cup {preparedDir[f] : f \in DOMAIN preparedDir} :
       \A k \in DOMAIN tables.positions :
         /\ tables.positions[k].lat # Null
         /\ tables.positions[k].lon # Null
         /\ tables.positions[k].icao # Null
         /\ tables.positions[k].icao # Some(<< >>)
  /\ PrepareSucceeded =>
       LET expected == SelectSeq(Observed, HasHexLatLon)
           pos == Store.positions
       IN /\ Len(pos) = Len(expected)
          /\ \A k \in DOMAIN pos :
               /\ pos[k].icao = expected[k].a.hex
               /\ pos[k].timestamp = expected[k].now
               /\ pos[k].lat = expected[k].a.lat
               /\ pos[k].lon = expected[k].a.lon
          /\ \A k \in DOMAIN Observed :
               HasHex(Observed[k]) =>
                 \E j \in DOMAIN Store.aircraft :
                   Store.aircraft[j].icao = Observed[k].a.hex

C10_Witness ==
  /\ PrepareSucceeded
  /\ \E k \in DOMAIN Observed :
       HasHex(Observed[k]) /\ Observed[k].a.lat = Null
  /\ \E k \in DOMAIN Observed : Observed[k].a.hex = Null
  /\ Len(Store.positions) >= 1
  /\ Len(Store.positions) < Len(Observed)

====
